---------------------------- MODULE Spec2Model ----------------------------
(***************************************************************************)
(* Model of quokka_web: the retrying batch orchestrator                    *)
(* (BaseCrawler.parallel_crawl / _crawl_worker), the session lifecycle of  *)
(* BaseCrawler, Agent and SingleBrowserManager, and the crawl-argument     *)
(* validator.                                                              *)
(*                                                                         *)
(* Objects live in a heap (crawler objects, each owning its Agent and its  *)
(* SingleBrowserManager) and in a table of browser processes; the workers  *)
(* hold references.  Every `await` of _crawl_worker is a separate step, so *)
(* the workers of a batch interleave at the points where the code yields.  *)
(* The calls that reach outside the program and may raise are              *)
(* instantiate (playwright start), chromium.launch, new_context, new_page, *)
(* the _start_hook and the crawl body _crawl; browser.close and the        *)
(* default _stop_hook are taken not to raise.                              *)
(*                                                                         *)
(* The page interactor's scroll run (ScrollHandler._scroll_load), its      *)
(* click-and-retry call (ClickHandler.click_until_element_visible) and a   *)
(* single call of the validator are separate entry points, each with its   *)
(* own specification (SpecScroll, SpecClick, SpecValidate) in which the    *)
(* other components are at rest.  The page answers freely at every call    *)
(* (scroll offset, matched count, visibility); every `await` of a run is a *)
(* step.  The page calls of a scroll run and of a click are taken not to   *)
(* raise; a scroll callback may raise, and the bounded wait for visibility *)
(* may time out.  SpecClickFair is SpecClick with the call run to its end. *)
(*                                                                         *)
(* SpecSession drives one session object by sequences of completed start,  *)
(* stop and crawl calls; SpecOverlap interleaves start calls on one object *)
(* at the awaits of SingleBrowserManager.start.                            *)
(***************************************************************************)
EXTENDS Integers, Sequences, FiniteSets, TLC

(* ------------------------------ bounds -------------------------------- *)
\* largest batch (length of crawl_args_list)
MaxTasks == 3
\* largest max_retry passed to parallel_crawl
MaxRetry == 2
\* largest n_workers passed to parallel_crawl
MaxWorkers == 2
\* largest number of start() calls in flight on one object
MaxStarts == 2
\* largest total retry budget of a batch: tasks times max_retry
MaxBudget == 6
\* largest product of batch length, max_retry and n_workers of a call
MaxLoad == 12
\* largest same_th passed to a scroll run
MaxSameTh == 2
\* largest number of matched elements the page shows, and largest threshold
MaxCount == 2
\* largest count_check_interval passed to a scroll run
MaxInterval == 2
\* largest number of scroll_step_callbacks
MaxCallbacks == 2
\* most cycles of a scroll run that are followed
MaxCycles == 11
\* largest max_retry passed to click_until_element_visible
MaxClickRetry == 4
\* most calls of the validator on one argument mapping that are followed
MaxCalls == 2
\* most start and stop calls on one session object that are followed
MaxOps == 4

None == <<>>

(* ------------------------ crawl-argument values ----------------------- *)
\* A Python value, reduced to its runtime type and a printable form.
IntVal(s) == [type |-> "int", val |-> s]
StrVal(s) == [type |-> "str", val |-> s]

\* BaseCrawler.required_fields / optional_fields are abstract; the concrete
\* crawler of the model declares required {a: int} and optional {b: str}.
required_fields == [a |-> "int"]
optional_fields == [b |-> "str"]

\* dict merge {**x, **y}: y's entries win
DictMerge(x, y) ==
    [k \in (DOMAIN x) \cup (DOMAIN y) |-> IF k \in DOMAIN y THEN y[k] ELSE x[k]]

crawler_fields == DictMerge(required_fields, optional_fields)

\* an isinstance that accepts every value
IsInstance_Any(value, expected_type) == TRUE

\* isinstance(field_value, expected_type)
IsInstance(value, expected_type) == value.type = expected_type

\* a missing-fields check that names one missing field only
MissingFields_First(required, crawl_args) ==
    LET missing == (DOMAIN required) \ (DOMAIN crawl_args)
    IN  IF missing = {} THEN {} ELSE {CHOOSE f \in missing : TRUE}

\* missing_fields = set(required_fields.keys()) - set(crawl_args.keys())
MissingFields(required, crawl_args) ==
    (DOMAIN required) \ (DOMAIN crawl_args)

\* an extra-fields check that names one extra field only
ExtraFields_First(all_fields, crawl_args) ==
    LET extra == (DOMAIN crawl_args) \ (DOMAIN all_fields)
    IN  IF extra = {} THEN {} ELSE {CHOOSE f \in extra : TRUE}

\* extra_fields = set(crawl_args.keys()) - set(all_fields.keys())
ExtraFields(all_fields, crawl_args) ==
    (DOMAIN crawl_args) \ (DOMAIN all_fields)

\* for field_name, field_value in crawl_args.items(): the field of the
\* first value that is no instance of its expected type.  order is the
\* order of the keyword arguments, which is the order of the dict.
FirstMistyped(all_fields, crawl_args, order) ==
    LET bad == {i \in 1..Len(order) :
                  ~IsInstance(crawl_args[order[i]], all_fields[order[i]])}
    IN  IF bad = {} THEN {}
        ELSE {order[CHOOSE i \in bad : \A j \in bad : i <= j]}

\* a validator that checks for unknown fields before missing ones
ValidateArgs_ExtraFirst(required, all_fields, crawl_args, order) ==
    LET missing_fields == MissingFields(required, crawl_args)
        extra_fields   == ExtraFields(all_fields, crawl_args)
    IN  IF extra_fields # {}
          THEN [error |-> "unknown", fields |-> extra_fields]
        ELSE IF missing_fields # {}
          THEN [error |-> "missing", fields |-> missing_fields]
        ELSE IF FirstMistyped(all_fields, crawl_args, order) # {}
          THEN [error |-> "type",
                fields |-> FirstMistyped(all_fields, crawl_args, order)]
        ELSE [error |-> "none", fields |-> {}]

\* the body of _validate_crawl_args for a crawler class that declares
\* required and all_fields: the error it raises ("none" when it returns)
\* with the field names the error's message names
ValidateArgs(required, all_fields, crawl_args, order) ==
    LET missing_fields == MissingFields(required, crawl_args)
        extra_fields   == ExtraFields(all_fields, crawl_args)
    IN  IF missing_fields # {}
          THEN [error |-> "missing", fields |-> missing_fields]
        ELSE IF extra_fields # {}
          THEN [error |-> "unknown", fields |-> extra_fields]
        ELSE IF FirstMistyped(all_fields, crawl_args, order) # {}
          THEN [error |-> "type",
                fields |-> FirstMistyped(all_fields, crawl_args, order)]
        ELSE [error |-> "none", fields |-> {}]

\* the field names a crawl takes, in the order the callers of the batch
\* model write them as keyword arguments
FieldNames == <<"a", "b", "c">>

KeyOrder(crawl_args) ==
    SelectSeq(FieldNames, LAMBDA f : f \in DOMAIN crawl_args)

\* _validate_crawl_args accepting every argument mapping (a validator that
\* checks nothing)
ValidateCrawlArgs_NoCheck(crawl_args) == [error |-> "none", fields |-> {}]

\* BaseCrawler._validate_crawl_args of the model's concrete crawler
ValidateCrawlArgs(crawl_args) ==
    ValidateArgs(required_fields, crawler_fields, crawl_args,
                 KeyOrder(crawl_args))

\* argument mappings a caller may put in a batch
ArgsA        == [a |-> IntVal("1")]
ArgsMistyped == [a |-> StrVal("x")]
ArgsExtra    == [a |-> IntVal("1"), c |-> IntVal("2")]
ArgsMissing  == [b |-> StrVal("x")]
CrawlArgsPool == {ArgsA, ArgsMistyped, ArgsExtra, ArgsMissing}

Tasks == 1..MaxTasks

VARIABLES
    phase,            \* parallel_crawl: "idle", "running", "returned", "raised"
    crawl_args_list,  \* the batch: a sequence of argument mappings
    max_retry,        \* parallel_crawl's max_retry
    n_workers,        \* parallel_crawl's n_workers
    pc,               \* per task: the worker's position
    finished,         \* per task: _crawl_worker's local `finished`
    n_retry,          \* per task: _crawl_worker's local `n_retry`
    crawler,          \* per task: _crawl_worker's local `crawler` (a reference)
    raised_at,        \* per task: what raised in the current attempt, or "none"
    heap,             \* crawler objects by reference
    browsers,         \* browser processes by reference
    attempts,         \* per task: iterations of the retry loop begun
    retry_log,        \* per task: the k of each 'Retrying k/max_retry' record
    runs,             \* per task: times the executor started its worker
    validated,        \* the tasks whose arguments passed _validate_crawl_args
    log_files,        \* per log file path: the tasks whose records it holds
    scroll,           \* one run of ScrollHandler._scroll_load
    click,            \* one call of ClickHandler.click_until_element_visible
    val,              \* one call of _validate_crawl_args
    session           \* start and stop calls made on one session object

vars == <<phase, crawl_args_list, max_retry, n_workers, pc, finished, n_retry,
          crawler, raised_at, heap, browsers, attempts, retry_log, runs,
          validated, log_files, scroll, click, val, session>>

\* a component that takes no part in the specification at hand
Unused == [pc |-> "unused"]

Batch == 1..Len(crawl_args_list)


(* -------------------- session objects and operations ------------------ *)
\* A world is the heap of crawler objects and the table of browser
\* processes; an operation returns the world it leaves and whether it raised.
World == [heap |-> heap, browsers |-> browsers]
Ret(w)   == [heap |-> w.heap, browsers |-> w.browsers, raised |-> FALSE]
Raise(w) == [heap |-> w.heap, browsers |-> w.browsers, raised |-> TRUE]

\* the steps of a session start at which the outside world may raise
FailPoints == {"none", "launch", "context", "page", "hook"}

\* BaseCrawler.__init__ / Agent.__init__ / SingleBrowserManager.__init__:
\* a crawler with its agent and browser manager, nothing running.
\* owner, launched, start_hooks, stop_hooks and last_hook are history: who
\* instantiated it, browsers launched, calls of the hooks, and what the
\* last hook called found.
NewCrawler(owner) ==
    [owner            |-> owner,
     agent_is_running |-> FALSE,
     page_interactor  |-> None,
     data_extractor   |-> None,
     mgr_is_running   |-> FALSE,
     browser          |-> None,
     context          |-> None,
     page             |-> None,
     launched         |-> 0,
     start_hooks      |-> 0,
     stop_hooks       |-> 0,
     last_hook        |-> None]

\* a start that does not look at is_running
MgrStart_NoGuard(w, c, failAt) ==
    IF failAt = "launch" THEN Raise(w)
    ELSE
      LET b  == <<c, w.heap[c].launched + 1>>
          w1 == [heap |-> [w.heap EXCEPT ![c].browser = b,
                                         ![c].launched = @ + 1],
                 browsers |-> (b :> [open |-> TRUE, closes |-> 0]) @@ w.browsers]
          w2 == [w1 EXCEPT !.heap[c].context = b]
          w3 == [w2 EXCEPT !.heap[c].page = b,
                           !.heap[c].mgr_is_running = TRUE]
      IN  IF failAt = "context" THEN Raise(w1)
          ELSE IF failAt = "page" THEN Raise(w2)
          ELSE Ret(w3)

\* SingleBrowserManager.start
MgrStart(w, c, failAt) ==
    IF w.heap[c].mgr_is_running THEN Ret(w)
    ELSE IF failAt = "launch" THEN Raise(w)
    ELSE
      LET b  == <<c, w.heap[c].launched + 1>>
          w1 == [heap |-> [w.heap EXCEPT ![c].browser = b,
                                         ![c].launched = @ + 1],
                 browsers |-> (b :> [open |-> TRUE, closes |-> 0]) @@ w.browsers]
          w2 == [w1 EXCEPT !.heap[c].context = b]
          w3 == [w2 EXCEPT !.heap[c].page = b,
                           !.heap[c].mgr_is_running = TRUE]
      IN  IF failAt = "context" THEN Raise(w1)
          ELSE IF failAt = "page" THEN Raise(w2)
          ELSE Ret(w3)

\* SingleBrowserManager.close
MgrClose(w, c) ==
    IF ~w.heap[c].mgr_is_running THEN Ret(w)
    ELSE
      LET b == w.heap[c].browser
      IN  Ret([heap |-> [w.heap EXCEPT ![c].browser = None,
                                       ![c].context = None,
                                       ![c].page = None,
                                       ![c].mgr_is_running = FALSE],
               browsers |-> [w.browsers EXCEPT ![b].open = FALSE,
                                               ![b].closes = @ + 1]])

\* what a hook finds when it is called
HookSeen(kind, obj) ==
    <<[hook       |-> kind,
       browser    |-> obj.browser # None,
       page       |-> obj.page # None,
       is_running |-> obj.agent_is_running]>>

\* a start that calls the hook although the agent is already running
AgentStart_HookOnNoOp(w, c, failAt) ==
    IF w.heap[c].agent_is_running
      THEN Ret([w EXCEPT !.heap[c].start_hooks = @ + 1,
                         !.heap[c].last_hook = HookSeen("start", w.heap[c])])
    ELSE
      LET r  == MgrStart(w, c, failAt)
          w1 == [r EXCEPT !.heap[c].page_interactor = r.heap[c].page,
                          !.heap[c].data_extractor = r.heap[c].page]
          w2 == [w1 EXCEPT !.heap[c].start_hooks = @ + 1,
                           !.heap[c].last_hook = HookSeen("start", w1.heap[c])]
      IN  IF r.raised THEN r
          ELSE IF failAt = "hook" THEN Raise(w2)
          ELSE Ret([w2 EXCEPT !.heap[c].agent_is_running = TRUE])

\* Agent.start: the browser, the interactor and extractor, the start hook,
\* then _is_running = True
AgentStart(w, c, failAt) ==
    IF w.heap[c].agent_is_running THEN Ret(w)
    ELSE
      LET r  == MgrStart(w, c, failAt)
          w1 == [r EXCEPT !.heap[c].page_interactor = r.heap[c].page,
                          !.heap[c].data_extractor = r.heap[c].page]
          w2 == [w1 EXCEPT !.heap[c].start_hooks = @ + 1,
                           !.heap[c].last_hook = HookSeen("start", w1.heap[c])]
      IN  IF r.raised THEN r
          ELSE IF failAt = "hook" THEN Raise(w2)
          ELSE Ret([w2 EXCEPT !.heap[c].agent_is_running = TRUE])

\* a stop that keeps the interactor and the extractor
AgentStop_KeepInteractor(w, c) ==
    IF ~w.heap[c].agent_is_running THEN Ret(w)
    ELSE
      LET r  == MgrClose(w, c)
          w2 == [r EXCEPT !.heap[c].stop_hooks = @ + 1,
                          !.heap[c].last_hook = HookSeen("stop", r.heap[c])]
      IN  Ret([w2 EXCEPT !.heap[c].agent_is_running = FALSE])

\* Agent.stop: close the browser, drop the interactor and extractor, the
\* stop hook, then _is_running = False
AgentStop(w, c) ==
    IF ~w.heap[c].agent_is_running THEN Ret(w)
    ELSE
      LET r  == MgrClose(w, c)
          w1 == [r EXCEPT !.heap[c].page_interactor = None,
                          !.heap[c].data_extractor = None]
          w2 == [w1 EXCEPT !.heap[c].stop_hooks = @ + 1,
                           !.heap[c].last_hook = HookSeen("stop", w1.heap[c])]
      IN  Ret([w2 EXCEPT !.heap[c].agent_is_running = FALSE])

\* BaseCrawler.is_running
IsRunning(w, c) == w.heap[c].agent_is_running

\* BaseCrawler.start (also __aenter__)
CrawlerStart(w, c, failAt) ==
    IF IsRunning(w, c) THEN Ret(w) ELSE AgentStart(w, c, failAt)

\* a stop that does nothing
CrawlerStop_Skip(w, c) == Ret(w)

\* BaseCrawler.stop (also __aexit__)
CrawlerStop(w, c) ==
    IF ~IsRunning(w, c) THEN Ret(w) ELSE AgentStop(w, c)


(* --------------------------- the orchestrator ------------------------- *)
\* what a caller may pass as crawl_args_list: non-empty lists over the pool
ArgsLists == UNION {[1..n -> CrawlArgsPool] : n \in 1..MaxTasks}

Init ==
    /\ phase = "idle"
    /\ crawl_args_list \in ArgsLists
    /\ max_retry \in 1..MaxRetry
    /\ n_workers \in 1..MaxWorkers
    /\ Len(crawl_args_list) * max_retry <= MaxBudget
    /\ Len(crawl_args_list) * max_retry * n_workers <= MaxLoad
    /\ pc = [t \in Tasks |-> "none"]
    /\ finished = [t \in Tasks |-> FALSE]
    /\ n_retry = [t \in Tasks |-> 0]
    /\ crawler = [t \in Tasks |-> None]
    /\ raised_at = [t \in Tasks |-> "none"]
    /\ heap = <<>>
    /\ browsers = <<>>
    /\ attempts = [t \in Tasks |-> 0]
    /\ retry_log = [t \in Tasks |-> <<>>]
    /\ runs = [t \in Tasks |-> 0]
    /\ validated = {}
    /\ log_files = <<>>
    /\ scroll = Unused
    /\ click = Unused
    /\ val = Unused
    /\ session = Unused

\* a validation loop that looks at the first element only
BatchValid_FirstOnly(args_list) == ValidateCrawlArgs(args_list[1]).error = "none"

\* parallel_crawl, step 1: every element passes _validate_crawl_args
BatchValid(args_list) ==
    \A i \in 1..Len(args_list) : ValidateCrawlArgs(args_list[i]).error = "none"

\* the elements _validate_crawl_args returned for before the loop of
\* parallel_crawl ended: all of them, or those before the first that raised
ValidatedPrefix(args_list) ==
    {i \in 1..Len(args_list) :
        \A j \in 1..i : ValidateCrawlArgs(args_list[j]).error = "none"}

\* parallel_crawl up to the call of ParallelExecutor.run: validation, then
\* one Task per element.  A validation error leaves by the caller.
ParallelCrawl ==
    /\ phase = "idle"
    /\ validated' = ValidatedPrefix(crawl_args_list)
    /\ IF BatchValid(crawl_args_list)
         THEN /\ phase' = "running"
              /\ pc' = [t \in Tasks |-> IF t \in Batch THEN "queued" ELSE "none"]
         ELSE /\ phase' = "raised"
              /\ pc' = pc
    /\ UNCHANGED <<log_files, scroll, click, val, session>>
    /\ UNCHANGED <<crawl_args_list, max_retry, n_workers, finished, n_retry,
                   crawler, raised_at, heap, browsers, attempts, retry_log,
                   runs>>

\* the tasks whose worker procedure is executing
Active == {t \in Tasks : pc[t] \notin {"none", "queued", "returned", "raised"}}

\* a pool one slot larger than asked for
PoolSize_OneMore == n_workers + 1

\* the n_workers parallel_crawl hands to ParallelExecutor.run
PoolSize == n_workers

\* ParallelExecutor.run: a free pool slot takes the next task of the queue
Dispatch(t) ==
    /\ phase = "running"
    /\ pc[t] = "queued"
    /\ \A u \in Tasks : pc[u] = "queued" => t <= u
    /\ Cardinality(Active) < PoolSize
    /\ pc' = [pc EXCEPT ![t] = "start"]
    /\ runs' = [runs EXCEPT ![t] = @ + 1]
    /\ UNCHANGED <<log_files, scroll, click, val, session>>
    /\ UNCHANGED <<phase, crawl_args_list, max_retry, n_workers, finished,
                   n_retry, crawler, raised_at, heap, browsers, attempts,
                   retry_log, validated>>

\* _crawler_args_str: abstract in BaseCrawler; a subclass renders the
\* arguments as text.  Modelled by the most a subclass can do: a rendering
\* that tells any two different argument mappings apart.
CrawlerArgsStr(crawl_args) == crawl_args

\* log_path = _quokka_log_dir / f"{file_name}.log": the same directory for
\* every task of a batch, the file named after the task's arguments
LogPath(crawl_args) == <<"log_dir", CrawlerArgsStr(crawl_args), ".log">>

\* the task's debugger appends a record to the file at path
LogWrite(files, path, t) ==
    IF path \in DOMAIN files
      THEN [files EXCEPT ![path] = @ \cup {t}]
      ELSE (path :> {t}) @@ files

\* _crawl_worker, steps 0 and 1 and the loop's initialisation
WorkerStart(t) ==
    /\ pc[t] = "start"
    /\ IF max_retry > 0 /\ ValidateCrawlArgs(crawl_args_list[t]).error = "none"
         THEN /\ pc' = [pc EXCEPT ![t] = "loop"]
              /\ finished' = [finished EXCEPT ![t] = FALSE]
              /\ n_retry' = [n_retry EXCEPT ![t] = 0]
              /\ validated' = validated \cup {t}
         ELSE /\ pc' = [pc EXCEPT ![t] = "raised"]
              /\ UNCHANGED <<finished, n_retry, validated>>
    /\ UNCHANGED <<log_files, scroll, click, val, session>>
    /\ UNCHANGED <<phase, crawl_args_list, max_retry, n_workers, crawler,
                   raised_at, heap, browsers, attempts, retry_log, runs>>

\* a loop that allows one attempt too many
LoopCond_OffByOne(n, f) == n <= max_retry /\ ~f

\* a loop that stops one attempt early
LoopCond_Early(n, f) == n < max_retry - 1 /\ ~f

\* a loop that does not look at the finished flag
LoopCond_NoFlag(n, f) == n < max_retry

\* while n_retry < _quokka_max_retry and not finished
LoopCond(n, f) == n < max_retry /\ ~f

\* the heap once the reference c is dropped: the object is gone
DropObject(h, c) == [k \in (DOMAIN h) \ {c} |-> h[k]]

\* the browser table once the reference c is dropped: the browsers it
\* launched and closed are gone, those still open stay as processes
DropClosed(bs, c) ==
    [k \in {b \in DOMAIN bs : ~(b[1] = c /\ ~bs[b].open)} |-> bs[k]]

\* an instantiate that hands out one shared crawler
InstantiateRef_Shared(t, k) == <<1, 1>>

\* BaseCrawler.instantiate / Agent.instantiate: cls(...) is a new object
InstantiateRef(t, k) == <<t, k>>

\* one iteration begins: crawler = None, then cls.instantiate(...)
Instantiate(t) ==
    /\ pc[t] = "loop"
    /\ LoopCond(n_retry[t], finished[t])
    /\ attempts' = [attempts EXCEPT ![t] = @ + 1]
    /\ LET old == crawler[t]
           h0  == IF old = None THEN heap ELSE DropObject(heap, old)
           b0  == IF old = None THEN browsers ELSE DropClosed(browsers, old)
           c   == InstantiateRef(t, attempts[t] + 1)
       IN  /\ browsers' = b0
           /\ \E ok \in BOOLEAN :
                IF ok
                  THEN /\ heap' = (c :> NewCrawler(<<t, attempts[t] + 1>>)) @@ h0
                       /\ crawler' = [crawler EXCEPT ![t] = c]
                       /\ raised_at' = [raised_at EXCEPT ![t] = "none"]
                       /\ pc' = [pc EXCEPT ![t] = "enter"]
                  ELSE /\ heap' = h0
                       /\ crawler' = [crawler EXCEPT ![t] = None]
                       /\ raised_at' = [raised_at EXCEPT ![t] = "instantiate"]
                       /\ pc' = [pc EXCEPT ![t] = "except"]
    /\ UNCHANGED <<log_files, scroll, click, val, session>>
    /\ UNCHANGED <<phase, crawl_args_list, max_retry, n_workers, finished,
                   n_retry, retry_log, runs, validated>>

\* async with crawler: __aenter__ starts the session; when it raises, the
\* with-statement's __aexit__ is not called
Enter(t) ==
    /\ pc[t] = "enter"
    /\ \E failAt \in FailPoints :
         LET r == CrawlerStart(World, crawler[t], failAt)
         IN  /\ heap' = r.heap
             /\ browsers' = r.browsers
             /\ pc' = [pc EXCEPT ![t] = IF r.raised THEN "except" ELSE "body"]
             /\ raised_at' = [raised_at EXCEPT
                                ![t] = IF r.raised THEN "start" ELSE "none"]
    /\ log_files' = LogWrite(log_files, LogPath(crawl_args_list[t]), t)
    /\ UNCHANGED <<scroll, click, val, session>>
    /\ UNCHANGED <<phase, crawl_args_list, max_retry, n_workers, finished,
                   n_retry, crawler, attempts, retry_log, runs, validated>>

\* await crawler.crawl(**crawl_args); finished = True
Body(t) ==
    /\ pc[t] = "body"
    /\ \E ok \in BOOLEAN :
         /\ finished' = [finished EXCEPT ![t] = IF ok THEN TRUE ELSE @]
         /\ raised_at' = [raised_at EXCEPT ![t] = IF ok THEN "none" ELSE "body"]
    /\ pc' = [pc EXCEPT ![t] = "exit"]
    /\ UNCHANGED <<log_files, scroll, click, val, session>>
    /\ UNCHANGED <<phase, crawl_args_list, max_retry, n_workers, n_retry,
                   crawler, heap, browsers, attempts, retry_log, runs,
                   validated>>

\* the with-statement's __aexit__: crawler.stop(), then the exception of the
\* body, if any, goes on to the handler
Exit(t) ==
    /\ pc[t] = "exit"
    /\ LET r == CrawlerStop(World, crawler[t])
       IN  /\ heap' = r.heap
           /\ browsers' = r.browsers
    /\ pc' = [pc EXCEPT ![t] = IF raised_at[t] # "none" THEN "except"
                                                       ELSE "loop"]
    /\ log_files' = LogWrite(log_files, LogPath(crawl_args_list[t]), t)
    /\ UNCHANGED <<scroll, click, val, session>>
    /\ UNCHANGED <<phase, crawl_args_list, max_retry, n_workers, finished,
                   n_retry, crawler, raised_at, attempts, retry_log, runs,
                   validated>>

\* a handler that lets the exception leave the worker
HandlerNext_Reraise == "raised"

\* except Exception: the handler ends and the loop goes on
HandlerNext == "loop"

\* the handler: stop the crawler if there is one, log, n_retry += 1
Except(t) ==
    /\ pc[t] = "except"
    /\ LET r == IF crawler[t] # None THEN CrawlerStop(World, crawler[t])
                                     ELSE Ret(World)
       IN  /\ heap' = r.heap
           /\ browsers' = r.browsers
    /\ retry_log' = [retry_log EXCEPT ![t] = Append(@, n_retry[t] + 1)]
    /\ n_retry' = [n_retry EXCEPT ![t] = @ + 1]
    /\ pc' = [pc EXCEPT ![t] = HandlerNext]
    /\ log_files' = LogWrite(log_files, LogPath(crawl_args_list[t]), t)
    /\ UNCHANGED <<scroll, click, val, session>>
    /\ UNCHANGED <<phase, crawl_args_list, max_retry, n_workers, finished,
                   crawler, raised_at, attempts, runs, validated>>

\* the loop condition fails: _crawl_worker returns, its locals go
WorkerReturn(t) ==
    /\ pc[t] = "loop"
    /\ ~LoopCond(n_retry[t], finished[t])
    /\ pc' = [pc EXCEPT ![t] = "returned"]
    /\ LET old == crawler[t]
       IN  /\ heap' = IF old = None THEN heap ELSE DropObject(heap, old)
           /\ browsers' = IF old = None THEN browsers
                                        ELSE DropClosed(browsers, old)
    /\ crawler' = [crawler EXCEPT ![t] = None]
    /\ UNCHANGED <<log_files, scroll, click, val, session>>
    /\ UNCHANGED <<phase, crawl_args_list, max_retry, n_workers, finished,
                   n_retry, raised_at, attempts, retry_log, runs, validated>>

\* ParallelExecutor.run returns once every task's worker has returned, and
\* parallel_crawl returns with it
ExecutorReturn ==
    /\ phase = "running"
    /\ \A t \in Batch : pc[t] = "returned"
    /\ phase' = "returned"
    /\ UNCHANGED <<log_files, scroll, click, val, session>>
    /\ UNCHANGED <<crawl_args_list, max_retry, n_workers, pc, finished, n_retry,
                   crawler, raised_at, heap, browsers, attempts, retry_log,
                   runs, validated>>

\* the steps of task t
TaskStep(t) ==
    \/ Dispatch(t)
    \/ WorkerStart(t)
    \/ Instantiate(t)
    \/ Enter(t)
    \/ Body(t)
    \/ Exit(t)
    \/ Except(t)
    \/ WorkerReturn(t)

Next ==
    \/ ParallelCrawl
    \/ \E t \in Tasks : Dispatch(t)
    \/ \E t \in Tasks : WorkerStart(t)
    \/ \E t \in Tasks : Instantiate(t)
    \/ \E t \in Tasks : Enter(t)
    \/ \E t \in Tasks : Body(t)
    \/ \E t \in Tasks : Exit(t)
    \/ \E t \in Tasks : Except(t)
    \/ \E t \in Tasks : WorkerReturn(t)
    \/ ExecutorReturn

Spec == Init /\ [][Next]_vars


(* ----------------------------- scroll run ----------------------------- *)
\* an argument that is given: None is the argument left out
Some(x) == <<x>>

\* the orchestrator at rest, for the specifications of the other components
CrawlIdle ==
    /\ phase = "unused"
    /\ crawl_args_list = <<>>
    /\ max_retry = 1
    /\ n_workers = 1
    /\ pc = [t \in Tasks |-> "none"]
    /\ finished = [t \in Tasks |-> FALSE]
    /\ n_retry = [t \in Tasks |-> 0]
    /\ crawler = [t \in Tasks |-> None]
    /\ raised_at = [t \in Tasks |-> "none"]
    /\ heap = <<>>
    /\ browsers = <<>>
    /\ attempts = [t \in Tasks |-> 0]
    /\ retry_log = [t \in Tasks |-> <<>>]
    /\ runs = [t \in Tasks |-> 0]
    /\ validated = {}
    /\ log_files = <<>>
    /\ session = Unused

crawlVars == <<phase, crawl_args_list, max_retry, n_workers, pc, finished,
               n_retry, crawler, raised_at, heap, browsers, attempts,
               retry_log, runs, validated, log_files, session>>

\* same_sel_count_th: polls without a change of the matched count that end
\* the run
same_sel_count_th == 10

\* the scroll offsets the page reports (window.scrollY or elem.scrollTop)
Offsets == {0, 400}

\* the matched-element counts the page reports
Counts == 0..MaxCount

\* the log_interval a caller passes: the smallest, and the default
LogIntervals == {1, 100}

\* the arguments of a run: scroll_load passes no selector and leaves
\* threshold, log_interval and count_check_interval at their defaults;
\* scroll_load_selector passes a selector
ScrollArgs ==
    {[selector |-> None, threshold |-> None, log_interval |-> 100,
      count_check_interval |-> 5, same_th |-> st, n_callbacks |-> nc] :
        st \in 1..MaxSameTh, nc \in 0..MaxCallbacks}
    \cup
    {[selector |-> Some("div.item"), threshold |-> th, log_interval |-> li,
      count_check_interval |-> ci, same_th |-> st, n_callbacks |-> nc] :
        th \in {None} \cup {Some(n) : n \in 1..MaxCount},
        li \in LogIntervals, ci \in 1..MaxInterval,
        st \in 1..MaxSameTh, nc \in 0..MaxCallbacks}

\* _scroll_load is entered: its locals as lines 149-153 set them, and the
\* record of what the run has done so far
ScrollStart(args) ==
    [pc |-> "loop",
     selector |-> args.selector, threshold |-> args.threshold,
     log_interval |-> args.log_interval,
     count_check_interval |-> args.count_check_interval,
     same_th |-> args.same_th, n_callbacks |-> args.n_callbacks,
     same_count |-> 0, last_top |-> None, count_check_counter |-> 0,
     n_selector |-> 0, prev_n_selector |-> 0, same_sel_count |-> 0,
     callback |-> 0, result |-> None,
     \* what the run has done
     cycle |-> 0, n_polls |-> 0, n_steps |-> 0, n_calls |-> 0,
     n_waits |-> 0, n_reads |-> 0, n_logs |-> 0, stop_by |-> "none",
     called |-> <<>>, cb_raised |-> FALSE,
     \* what the page has answered
     last_reading |-> None, run_len |-> 0, all_differ |-> TRUE,
     last_poll |-> 0, unchanged_polls |-> 0, nogrowth_polls |-> 0,
     log_due |-> FALSE]

InitScroll ==
    /\ CrawlIdle
    /\ click = Unused
    /\ val = Unused
    /\ \E args \in ScrollArgs : scroll = ScrollStart(args)

\* a loop that gives up after three cycles
LoopGuard_Capped(cycle) == cycle < 3

\* while True
LoopGuard(cycle) == TRUE

\* a count check that is due one cycle late
PollDue_Late(counter, interval) == counter > interval

\* if count_check_counter >= count_check_interval
PollDue(counter, interval) == counter >= interval

\* a counter of unchanged polls that never counts
SameSelNext_NoCount(same_sel_count, n, prev) == 0

\* if n_selector == prev_n_selector: same_sel_count += 1, else 0
SameSelNext(same_sel_count, n, prev) ==
    IF n = prev THEN same_sel_count + 1 ELSE 0

\* else: ... prev_n_selector = n_selector, left out
PrevNext_Keep(n, prev) == prev

\* the baseline after the comparison: unchanged when n_selector equals it,
\* else prev_n_selector = n_selector
PrevNext(n, prev) == n

\* a count check that never ends the run
CountStable_Never(same_sel_count) == FALSE

\* if same_sel_count >= same_sel_count_th: break
CountStable(same_sel_count) == same_sel_count >= same_sel_count_th

\* a threshold that must be exceeded
ThresholdReached_Strict(n, threshold) ==
    threshold # None /\ n > threshold[1]

\* if threshold is not None and n_selector >= threshold: break
ThresholdReached(n, threshold) ==
    threshold # None /\ n >= threshold[1]

\* a position check that needs one more equal reading
PositionStable_OneMore(same_count, same_th) == same_count > same_th

\* if same_count >= same_th: break
PositionStable(same_count, same_th) == same_count >= same_th

\* a position counter that a differing reading does not reset
SameCountNext_NoReset(same_count, top, last_top) ==
    IF top = last_top THEN same_count + 1 ELSE same_count

\* if top == last_top: same_count += 1, else: same_count = 0
SameCountNext(same_count, top, last_top) ==
    IF top = last_top THEN same_count + 1 ELSE 0

\* the top of the loop in a cycle without a count check: no selector, or the
\* check is not due
CycleBegin ==
    /\ scroll.pc = "loop"
    /\ LoopGuard(scroll.cycle)
    /\ scroll.cycle < MaxCycles
    /\ IF scroll.selector = None
         THEN scroll' = [scroll EXCEPT !.pc = "step", !.cycle = @ + 1]
         ELSE /\ ~PollDue(scroll.count_check_counter + 1,
                          scroll.count_check_interval)
              /\ scroll' = [scroll EXCEPT !.pc = "step", !.cycle = @ + 1,
                                          !.count_check_counter = @ + 1]
    /\ UNCHANGED <<crawlVars, click, val>>

\* the top of the loop in a cycle whose count check is due: count the
\* matched elements, then the two stop conditions, then the progress log
Poll ==
    /\ scroll.pc = "loop"
    /\ LoopGuard(scroll.cycle)
    /\ scroll.cycle < MaxCycles
    /\ scroll.selector # None
    /\ PollDue(scroll.count_check_counter + 1, scroll.count_check_interval)
    /\ \E n \in Counts :
         LET same == SameSelNext(scroll.same_sel_count, n,
                                 scroll.prev_n_selector)
             prev == PrevNext(n, scroll.prev_n_selector)
             stop == IF CountStable(same) THEN "count"
                     ELSE IF ThresholdReached(n, scroll.threshold)
                            THEN "threshold"
                            ELSE "none"
             logs == stop = "none" /\ n - prev >= scroll.log_interval
         IN  scroll' = [scroll EXCEPT
                          !.cycle = @ + 1,
                          !.n_polls = @ + 1,
                          !.count_check_counter = 0,
                          !.n_selector = n,
                          !.same_sel_count = same,
                          !.prev_n_selector = prev,
                          !.n_logs = IF logs THEN @ + 1 ELSE @,
                          !.stop_by = stop,
                          !.pc = IF stop = "none" THEN "step" ELSE "done",
                          !.unchanged_polls =
                              IF n = scroll.last_poll THEN @ + 1 ELSE 0,
                          !.nogrowth_polls =
                              IF n <= scroll.last_poll THEN @ + 1 ELSE 0,
                          !.log_due =
                              stop = "none"
                                /\ n - scroll.last_poll > scroll.log_interval,
                          !.last_poll = n]
    /\ UNCHANGED <<crawlVars, click, val>>

\* await self._scroll_step(...); then the callbacks, if there are any
ScrollStep ==
    /\ scroll.pc = "step"
    /\ scroll' = [scroll EXCEPT
                    !.n_steps = @ + 1,
                    !.called = <<>>,
                    !.callback = IF scroll.n_callbacks > 0 THEN 1 ELSE 0,
                    !.pc = IF scroll.n_callbacks > 0 THEN "callback"
                                                     ELSE "wait"]
    /\ UNCHANGED <<crawlVars, click, val>>

\* a loop over the callbacks that leaves out every second one
NextCallback_Skip(i) == i + 2

\* for callback in scroll_step_callbacks: the callback after the i-th
NextCallback(i) == i + 1

\* a call of the callbacks that swallows what they raise
OnCallbackRaise_Swallow == "wait"

\* the calls of the callbacks are in no try block: what one raises leaves
\* _scroll_load
OnCallbackRaise == "raised"

\* one callback of scroll_step_callbacks is called (awaited when it is a
\* coroutine function), in list order
Callback ==
    /\ scroll.pc = "callback"
    /\ \E raises \in BOOLEAN :
         scroll' = [scroll EXCEPT
                      !.n_calls = @ + 1,
                      !.called = Append(@, scroll.callback),
                      !.cb_raised = raises,
                      !.callback = IF raises THEN @ ELSE NextCallback(@),
                      !.pc = IF raises THEN OnCallbackRaise
                             ELSE IF NextCallback(scroll.callback)
                                       > scroll.n_callbacks
                                    THEN "wait" ELSE "callback"]
    /\ UNCHANGED <<crawlVars, click, val>>

\* await asyncio.sleep(load_wait / 1000.)
Wait ==
    /\ scroll.pc = "wait"
    /\ scroll' = [scroll EXCEPT !.n_waits = @ + 1, !.pc = "top"]
    /\ UNCHANGED <<crawlVars, click, val>>

\* top = await self.get_scroll_top(elem=elem) and the position check
ReadTop ==
    /\ scroll.pc = "top"
    /\ \E top \in Offsets :
         LET same == SameCountNext(scroll.same_count, Some(top),
                                  scroll.last_top)
             stop == Some(top) = scroll.last_top
                       /\ PositionStable(same, scroll.same_th)
         IN  scroll' = [scroll EXCEPT
                          !.n_reads = @ + 1,
                          !.same_count = same,
                          !.last_top = IF stop THEN @ ELSE Some(top),
                          !.stop_by = IF stop THEN "top" ELSE @,
                          !.pc = IF stop THEN "done" ELSE "loop",
                          !.run_len =
                              IF Some(top) = scroll.last_reading
                                THEN @ + 1 ELSE 1,
                          !.all_differ =
                              @ /\ Some(top) # scroll.last_reading,
                          !.last_reading = Some(top)]
    /\ UNCHANGED <<crawlVars, click, val>>

\* a return value that is the number of elements
ReturnValue_Count(n) == [type |-> "int", val |-> n]

\* elements = await self._common_handler.get_elements(selector=selector);
\* return elements: a list of n element handles
ReturnValue(n) == [type |-> "list", len |-> n]

\* _scroll_load has returned: scroll_load returns None; scroll_load_selector
\* queries the matched elements once more and returns them
Return ==
    /\ scroll.pc = "done"
    /\ IF scroll.selector = None
         THEN scroll' = [scroll EXCEPT !.pc = "returned"]
         ELSE \E n \in Counts :
                scroll' = [scroll EXCEPT !.pc = "returned",
                                         !.result = Some(ReturnValue(n))]
    /\ UNCHANGED <<crawlVars, click, val>>

\* a step of the loop of _scroll_load
LoopStep ==
    \/ CycleBegin
    \/ Poll
    \/ ScrollStep
    \/ Callback
    \/ Wait
    \/ ReadTop

NextScroll ==
    \/ CycleBegin
    \/ Poll
    \/ ScrollStep
    \/ Callback
    \/ Wait
    \/ ReadTop
    \/ Return

SpecScroll == InitScroll /\ [][NextScroll]_vars


(* --------------------------- click and retry -------------------------- *)
\* click_until_element_visible is entered: n_retry = 0, and the record of
\* what the call has done and what the page has answered
ClickStart(m) ==
    [pc |-> "test", max_retry |-> m, n_retry |-> 0,
     \* what the call has done
     n_tests |-> 0, n_finds |-> 0, n_clicks |-> 0, n_timeouts |-> 0,
     error |-> "none",
     \* what the page has answered
     last_visible |-> FALSE, ever_visible |-> FALSE, click_always |-> TRUE]

InitClick ==
    /\ CrawlIdle
    /\ scroll = Unused
    /\ val = Unused
    /\ \E m \in 0..MaxClickRetry : click = ClickStart(m)

\* a loop condition that does not look at the visible-target
Retrying_IgnoreVisible(visible, n, m) == n < m

\* a loop condition without the retry budget
Retrying_NoBudget(visible, n, m) == ~visible

\* while not await self.page.is_visible(visible_selector) and
\* n_retry < max_retry
Retrying(visible, n, m) == ~visible /\ n < m

\* if n_retry >= max_retry: raise RuntimeError(Cannot make ... visible)
GaveUp(visible, n, m) == n >= m

\* a missing click-target that is skipped over
NotFoundNext_Skip == "wait"

\* else: raise RuntimeError(Cannot find the clicking element)
NotFoundNext == "raised"

\* a wait whose timeout leaves the call
AfterWait_Propagate(outcome) ==
    IF outcome = "timeout" THEN "raised" ELSE "test"

\* try: await self.page.wait_for_selector(...) except Exception: pass
AfterWait(outcome) == "test"

\* the loop condition: the page is asked whether the visible-target is
\* visible; when the loop ends, the check that follows it
LoopTest ==
    /\ click.pc = "test"
    /\ \E visible \in BOOLEAN :
         LET go == Retrying(visible, click.n_retry, click.max_retry)
             up == GaveUp(visible, click.n_retry, click.max_retry)
         IN  click' = [click EXCEPT
                         !.n_tests = @ + 1,
                         !.last_visible = visible,
                         !.ever_visible = @ \/ visible,
                         !.pc = IF go THEN "find"
                                ELSE IF up THEN "raised" ELSE "returned",
                         !.error = IF ~go /\ up THEN "Cannot make visible"
                                   ELSE @]
    /\ UNCHANGED <<crawlVars, scroll, val>>

\* if await self.page.is_visible(click_selector), else raise
Find ==
    /\ click.pc = "find"
    /\ \E found \in BOOLEAN :
         click' = [click EXCEPT
                     !.n_finds = @ + 1,
                     !.click_always = @ /\ found,
                     !.pc = IF found THEN "click" ELSE NotFoundNext,
                     !.error = IF ~found /\ NotFoundNext = "raised"
                                 THEN "Cannot find the clicking element"
                                 ELSE @]
    /\ UNCHANGED <<crawlVars, scroll, val>>

\* query_selector, scroll_into_view_if_needed, click
Click ==
    /\ click.pc = "click"
    /\ click' = [click EXCEPT !.n_clicks = @ + 1, !.pc = "wait"]
    /\ UNCHANGED <<crawlVars, scroll, val>>

\* the bounded wait for the visible-target, whose failure is swallowed;
\* then n_retry += 1
WaitVisible ==
    /\ click.pc = "wait"
    /\ \E outcome \in {"visible", "timeout"} :
         click' = [click EXCEPT
                     !.n_timeouts = IF outcome = "timeout" THEN @ + 1 ELSE @,
                     !.ever_visible = @ \/ outcome = "visible",
                     !.n_retry = IF AfterWait(outcome) = "test"
                                   THEN @ + 1 ELSE @,
                     !.pc = AfterWait(outcome),
                     !.error = IF AfterWait(outcome) = "raised"
                                 THEN "Timeout" ELSE @]
    /\ UNCHANGED <<crawlVars, scroll, val>>

NextClick ==
    \/ LoopTest
    \/ Find
    \/ Click
    \/ WaitVisible

SpecClick == InitClick /\ [][NextClick]_vars

\* the call is one coroutine: while it can take a step it takes one (every
\* driver call is taken to return)
SpecClickFair == InitClick /\ [][NextClick]_vars /\ WF_vars(NextClick)


(* ------------------------- argument validation ------------------------ *)
\* a dict without entries
EmptyDict == [f \in {} |-> "none"]

\* the declarations of crawler classes: required_fields() and
\* optional_fields(), disjoint
Schemas ==
    {[required |-> [a |-> "int"], optional |-> [b |-> "str"]],
     [required |-> [a |-> "int"], optional |-> EmptyDict],
     [required |-> [a |-> "int", b |-> "str"], optional |-> EmptyDict],
     [required |-> [a |-> "int", b |-> "str"], optional |-> [c |-> "int"]]}

\* the values a caller passes
ArgValues == {IntVal("1"), IntVal("2"), StrVal("x")}

\* the keyword arguments of a call: a dict over some of the field names
ArgDicts ==
    UNION {[S -> ArgValues] : S \in SUBSET {FieldNames[i] : i \in 1..Len(FieldNames)}}

\* the orders in which the keys of a dict can have been written
KeyOrders(crawl_args) ==
    {o \in [1..Cardinality(DOMAIN crawl_args) -> DOMAIN crawl_args] :
        \A i, j \in DOMAIN o : o[i] = o[j] => i = j}

InitValidate ==
    /\ CrawlIdle
    /\ scroll = Unused
    /\ click = Unused
    /\ \E schema \in Schemas, crawl_args \in ArgDicts :
         \E order \in KeyOrders(crawl_args) :
           val = [pc |-> "call",
                  required |-> schema.required,
                  optional |-> schema.optional,
                  crawl_args |-> crawl_args, order |-> order,
                  n_calls |-> 0,
                  result |-> [error |-> "none", fields |-> {}]]

\* a validator that removes the unknown fields from the mapping it is given
KwargsAfter_DropExtra(all_fields, crawl_args) ==
    [f \in (DOMAIN crawl_args) \cap (DOMAIN all_fields) |-> crawl_args[f]]

\* the mapping after the call: _validate_crawl_args assigns to no key of
\* crawl_args (and **crawl_args is the call's own dict)
KwargsAfter(all_fields, crawl_args) == crawl_args

\* cls._validate_crawl_args(**crawl_args), called on the same arguments
\* again as parallel_crawl and then _crawl_worker do
CallValidate ==
    /\ val.pc \in {"call", "done"}
    /\ val.n_calls < MaxCalls
    /\ LET all_fields == DictMerge(val.required, val.optional)
           after == KwargsAfter(all_fields, val.crawl_args)
       IN  val' = [val EXCEPT
                     !.pc = "done",
                     !.n_calls = @ + 1,
                     !.crawl_args = after,
                     !.order = SelectSeq(@, LAMBDA f : f \in DOMAIN after),
                     !.result = ValidateArgs(val.required, all_fields,
                                             val.crawl_args, val.order)]
    /\ UNCHANGED <<crawlVars, scroll, click>>

NextValidate == CallValidate

SpecValidate == InitValidate /\ [][NextValidate]_vars


(* ------------------------- session start and stop --------------------- *)
\* the session object the calls are made on
SessionRef == <<1, 1>>

\* the object is driven as a crawler (BaseCrawler.start / stop), as an agent
\* by itself (Agent.start / stop) or as a browser manager by itself
\* (SingleBrowserManager.start / close)
Levels == {"crawler", "agent", "mgr"}

InitSession ==
    /\ phase = "unused"
    /\ crawl_args_list = <<>>
    /\ max_retry = 1
    /\ n_workers = 1
    /\ pc = [t \in Tasks |-> "none"]
    /\ finished = [t \in Tasks |-> FALSE]
    /\ n_retry = [t \in Tasks |-> 0]
    /\ crawler = [t \in Tasks |-> None]
    /\ raised_at = [t \in Tasks |-> "none"]
    /\ attempts = [t \in Tasks |-> 0]
    /\ retry_log = [t \in Tasks |-> <<>>]
    /\ runs = [t \in Tasks |-> 0]
    /\ validated = {}
    /\ log_files = <<>>
    /\ scroll = Unused
    /\ click = Unused
    /\ val = Unused
    /\ heap = (SessionRef :> NewCrawler(SessionRef))
    /\ browsers = <<>>
    /\ \E level \in Levels :
         session = [level |-> level, ops |-> 0, call |-> "none",
                    noop |-> FALSE, raised |-> FALSE,
                    eff_starts |-> 0, eff_stops |-> 0,
                    any_raised |-> FALSE,
                    body_runs |-> 0, body_stopped |-> FALSE,
                    crawl_errors |-> 0]

sessionFrame == <<phase, crawl_args_list, max_retry, n_workers, pc, finished,
                  n_retry, crawler, raised_at, attempts, retry_log, runs,
                  validated, log_files, scroll, click, val>>

\* a call returns or raises: the world it leaves, and what the call was
SessionCall(call, r, noop, eff_start, eff_stop) ==
    /\ heap' = r.heap
    /\ browsers' = r.browsers
    /\ session' = [session EXCEPT
                     !.ops = @ + 1,
                     !.call = call,
                     !.noop = noop,
                     !.raised = r.raised,
                     !.any_raised = @ \/ r.raised,
                     !.eff_starts = IF eff_start THEN @ + 1 ELSE @,
                     !.eff_stops = IF eff_stop THEN @ + 1 ELSE @]
    /\ UNCHANGED sessionFrame

\* await crawler.start()
SessionCrawlerStart ==
    /\ session.level = "crawler"
    /\ session.ops < MaxOps
    /\ \E failAt \in FailPoints :
         SessionCall("crawler.start", CrawlerStart(World, SessionRef, failAt),
                     heap[SessionRef].agent_is_running,
                     ~heap[SessionRef].agent_is_running
                        /\ (heap[SessionRef].mgr_is_running
                              \/ failAt \in {"none", "hook"}),
                     FALSE)

\* await crawler.stop()
SessionCrawlerStop ==
    /\ session.level = "crawler"
    /\ session.ops < MaxOps
    /\ SessionCall("crawler.stop", CrawlerStop(World, SessionRef),
                   ~heap[SessionRef].agent_is_running, FALSE,
                   heap[SessionRef].agent_is_running)

\* if self.is_running is False: self.debug_tool.error(...)
CrawlLogsError(running) == ~running

\* await self._crawl(*args, **kwargs), after the if statement and outside it
CrawlRunsBody(running) == TRUE

\* await crawler.crawl(**crawl_args); the body may raise
SessionCrawl ==
    /\ session.level = "crawler"
    /\ session.ops < MaxOps
    /\ \E raises \in BOOLEAN :
         LET running == IsRunning(World, SessionRef)
             body    == CrawlRunsBody(running)
         IN  session' = [session EXCEPT
                           !.ops = @ + 1,
                           !.call = "crawler.crawl",
                           !.noop = FALSE,
                           !.raised = body /\ raises,
                           !.body_runs = IF body THEN @ + 1 ELSE @,
                           !.body_stopped = @ \/ (body /\ ~running),
                           !.crawl_errors =
                               IF CrawlLogsError(running) THEN @ + 1 ELSE @]
    /\ UNCHANGED <<heap, browsers>>
    /\ UNCHANGED sessionFrame

\* await agent.start()
SessionAgentStart ==
    /\ session.level = "agent"
    /\ session.ops < MaxOps
    /\ \E failAt \in FailPoints :
         SessionCall("agent.start", AgentStart(World, SessionRef, failAt),
                     heap[SessionRef].agent_is_running,
                     ~heap[SessionRef].agent_is_running
                        /\ (heap[SessionRef].mgr_is_running
                              \/ failAt \in {"none", "hook"}),
                     FALSE)

\* await agent.stop()
SessionAgentStop ==
    /\ session.level = "agent"
    /\ session.ops < MaxOps
    /\ SessionCall("agent.stop", AgentStop(World, SessionRef),
                   ~heap[SessionRef].agent_is_running, FALSE,
                   heap[SessionRef].agent_is_running)

\* await browser_mgr.start(); the manager by itself has no hook
SessionMgrStart ==
    /\ session.level = "mgr"
    /\ session.ops < MaxOps
    /\ \E failAt \in FailPoints \ {"hook"} :
         SessionCall("mgr.start", MgrStart(World, SessionRef, failAt),
                     heap[SessionRef].mgr_is_running, FALSE, FALSE)

\* await browser_mgr.close()
SessionMgrClose ==
    /\ session.level = "mgr"
    /\ session.ops < MaxOps
    /\ SessionCall("mgr.close", MgrClose(World, SessionRef),
                   ~heap[SessionRef].mgr_is_running, FALSE, FALSE)

NextSession ==
    \/ SessionCrawlerStart
    \/ SessionCrawlerStop
    \/ SessionCrawl
    \/ SessionAgentStart
    \/ SessionAgentStop
    \/ SessionMgrStart
    \/ SessionMgrClose

SpecSession == InitSession /\ [][NextSession]_vars


(* ------------------------ overlapping start calls --------------------- *)
\* the start() calls made on the one object, each a coroutine of the same
\* event loop: they interleave at the awaits of SingleBrowserManager.start
Starts == 1..MaxStarts

\* the object is a browser manager by itself or an agent; each call is not
\* yet made ("idle"), suspended in chromium.launch ("launch"), in
\* new_context ("context") or in new_page ("page"), or has returned
\* ("done"); mine[i] is the browser call i launched
InitOverlap ==
    /\ phase = "unused"
    /\ crawl_args_list = <<>>
    /\ max_retry = 1
    /\ n_workers = 1
    /\ pc = [t \in Tasks |-> "none"]
    /\ finished = [t \in Tasks |-> FALSE]
    /\ n_retry = [t \in Tasks |-> 0]
    /\ crawler = [t \in Tasks |-> None]
    /\ raised_at = [t \in Tasks |-> "none"]
    /\ attempts = [t \in Tasks |-> 0]
    /\ retry_log = [t \in Tasks |-> <<>>]
    /\ runs = [t \in Tasks |-> 0]
    /\ validated = {}
    /\ log_files = <<>>
    /\ scroll = Unused
    /\ click = Unused
    /\ val = Unused
    /\ heap = (SessionRef :> NewCrawler(SessionRef))
    /\ browsers = <<>>
    /\ \E level \in {"mgr", "agent"} :
         session = [level |-> level,
                    co |-> [i \in Starts |-> "idle"],
                    mine |-> [i \in Starts |-> None],
                    overlapped |-> FALSE,
                    closed |-> FALSE]

\* Agent.start after browser_mgr.start has returned: the interactor and the
\* extractor on the manager's page, the start hook, _is_running = True
AgentStarted(h) ==
    [h EXCEPT ![SessionRef].page_interactor = h[SessionRef].page,
              ![SessionRef].data_extractor = h[SessionRef].page,
              ![SessionRef].start_hooks = @ + 1,
              ![SessionRef].last_hook = HookSeen("start", h[SessionRef]),
              ![SessionRef].agent_is_running = TRUE]

\* start() is called: the guard of Agent.start (on an agent), the guard of
\* SingleBrowserManager.start, then the call of chromium.launch, in which
\* the coroutine is suspended; the guards look at the flags only
OverlapBegin(i) ==
    /\ session.co[i] = "idle"
    /\ ~session.closed
    /\ LET obj       == heap[SessionRef]
           launching == \E j \in Starts : session.co[j] = "launch"
           noop      == session.level = "agent" /\ obj.agent_is_running
           launches  == ~noop /\ ~obj.mgr_is_running
       IN  /\ session' = [session EXCEPT
                            !.co[i] = IF launches THEN "launch" ELSE "done",
                            !.overlapped = @ \/ (launching /\ launches)]
           /\ heap' = IF ~noop /\ ~launches /\ session.level = "agent"
                        THEN AgentStarted(heap) ELSE heap
    /\ UNCHANGED browsers
    /\ UNCHANGED sessionFrame

\* self._browser = await self.wright.chromium.launch(...): the launch has
\* returned a new browser; then the call of new_context on it
OverlapLaunched(i) ==
    /\ session.co[i] = "launch"
    /\ LET b == <<SessionRef, heap[SessionRef].launched + 1>>
       IN  /\ heap' = [heap EXCEPT ![SessionRef].browser = b,
                                   ![SessionRef].launched = @ + 1]
           /\ browsers' = (b :> [open |-> TRUE, closes |-> 0]) @@ browsers
           /\ session' = [session EXCEPT !.co[i] = "context",
                                         !.mine[i] = b]
    /\ UNCHANGED sessionFrame

\* self._context = await self._browser.new_context(...): the context of the
\* browser this call launched; then the call of new_page on it
OverlapContext(i) ==
    /\ session.co[i] = "context"
    /\ heap' = [heap EXCEPT ![SessionRef].context = session.mine[i]]
    /\ session' = [session EXCEPT !.co[i] = "page"]
    /\ UNCHANGED browsers
    /\ UNCHANGED sessionFrame

\* self._page = await self._context.new_page(); self._is_running = True;
\* in Agent.start then the interactor and extractor, the start hook and
\* self._is_running = True, without another suspension
OverlapPage(i) ==
    /\ session.co[i] = "page"
    /\ LET h1 == [heap EXCEPT ![SessionRef].page = session.mine[i],
                              ![SessionRef].mgr_is_running = TRUE]
       IN  heap' = IF session.level = "agent" THEN AgentStarted(h1) ELSE h1
    /\ session' = [session EXCEPT !.co[i] = "done"]
    /\ UNCHANGED browsers
    /\ UNCHANGED sessionFrame

\* a later close() (stop() on the agent), when every start has returned
OverlapClose ==
    /\ \A i \in Starts : session.co[i] = "done"
    /\ ~session.closed
    /\ LET r == IF session.level = "agent"
                  THEN AgentStop(World, SessionRef)
                  ELSE MgrClose(World, SessionRef)
       IN  /\ heap' = r.heap
           /\ browsers' = r.browsers
    /\ session' = [session EXCEPT !.closed = TRUE]
    /\ UNCHANGED sessionFrame

NextOverlap ==
    \/ \E i \in Starts : OverlapBegin(i)
    \/ \E i \in Starts : OverlapLaunched(i)
    \/ \E i \in Starts : OverlapContext(i)
    \/ \E i \in Starts : OverlapPage(i)
    \/ OverlapClose

SpecOverlap == InitOverlap /\ [][NextOverlap]_vars


(* ------------------------------- claims ------------------------------- *)
\* well-formed arguments, as the validator's contract states them: every
\* required field present, no field outside required and optional, every
\* present value of its declared type
ArgsOKFor(required, optional, crawl_args) ==
    /\ (DOMAIN required) \subseteq (DOMAIN crawl_args)
    /\ (DOMAIN crawl_args) \subseteq ((DOMAIN required) \cup (DOMAIN optional))
    /\ \A f \in DOMAIN crawl_args :
         crawl_args[f].type =
           (IF f \in DOMAIN optional THEN optional[f] ELSE required[f])

ArgsOK(crawl_args) == ArgsOKFor(required_fields, optional_fields, crawl_args)

\* the task ended: finished, or its retry budget is used up
Terminal(t) == finished[t] \/ n_retry[t] = max_retry

\* every attempt task t has made so far raised
AllRaised(t) == Len(retry_log[t]) = attempts[t]

\* C1: a worker never raises and never makes more than max_retry attempts;
\* when every attempt raised, the worker has returned after exactly
\* max_retry attempts, each logged as 'Retrying k/max_retry' for
\* k = 1..max_retry, with finished = False and n_retry = max_retry.
C1_RetryExhaustion ==
    \A t \in Tasks :
      /\ pc[t] # "raised"
      /\ attempts[t] <= max_retry
      /\ (pc[t] = "returned" /\ AllRaised(t)) =>
           /\ attempts[t] = max_retry
           /\ ~finished[t]
           /\ n_retry[t] = max_retry
           /\ retry_log[t] = [k \in 1..max_retry |-> k]

C1_Witness ==
    \E t \in Tasks :
      /\ pc[t] = "returned" /\ ~finished[t]
      /\ max_retry = 2 /\ attempts[t] = 2 /\ retry_log[t] = <<1, 2>>

\* C2: a failing task never stops a sibling: no worker raises; while the
\* batch runs every task that has not returned can take a step, or waits in
\* the queue while some task of the batch can; and when the batch has
\* returned every task is terminal, every unfinished task made exactly
\* max_retry attempts, and every task none of whose attempts raised is
\* finished after one attempt.
C2_SiblingsUnaffected ==
    /\ \A t \in Batch : pc[t] # "raised"
    /\ phase = "running" =>
         LET canStep == [u \in Batch |-> ENABLED TaskStep(u)]
         IN  \A t \in Batch :
               \/ pc[t] = "returned"
               \/ canStep[t]
               \/ pc[t] = "queued" /\ \E u \in Batch : canStep[u]
    /\ phase = "returned" =>
         \A t \in Batch :
           /\ Terminal(t)
           /\ ~finished[t] =>
                attempts[t] = max_retry /\ Len(retry_log[t]) = max_retry
           /\ retry_log[t] = <<>> => finished[t] /\ attempts[t] = 1

C2_Witness ==
    /\ phase = "returned"
    /\ Len(crawl_args_list) = 3 /\ n_workers = 2 /\ max_retry = 2
    /\ \E t \in Batch :
         /\ ~finished[t] /\ attempts[t] = 2
         /\ \A u \in Batch \ {t} : finished[u] /\ retry_log[u] = <<>>

\* C3: after the crawl body raised, from the handler on (so before the next
\* instantiate and before the worker returns) the attempt's session is
\* stopped: agent and browser manager not running, no browser referenced,
\* and the browser it launched closed by exactly one close(); no browser is
\* ever closed twice.
C3_StoppedAfterBodyRaises ==
    /\ \A b \in DOMAIN browsers : browsers[b].closes <= 1
    /\ \A t \in Tasks :
         (raised_at[t] = "body" /\ pc[t] \in {"except", "loop"}) =>
           /\ crawler[t] \in DOMAIN heap
           /\ ~heap[crawler[t]].agent_is_running
           /\ ~heap[crawler[t]].mgr_is_running
           /\ heap[crawler[t]].browser = None
           /\ <<crawler[t], 1>> \in DOMAIN browsers
           /\ ~browsers[<<crawler[t], 1>>].open
           /\ browsers[<<crawler[t], 1>>].closes = 1

C3_Witness ==
    \E t \in Tasks :
      /\ raised_at[t] = "body" /\ pc[t] = "loop" /\ n_retry[t] >= 1
      /\ browsers[<<crawler[t], 1>>].closes = 1

\* C4: a browser is open only while the attempt that launched it is under
\* way (in the with-body, leaving it, or in the handler): once the attempt
\* has concluded none of its browsers is open.
C4_NoBrowserOpenAfterAttempt ==
    \A b \in DOMAIN browsers :
      browsers[b].open =>
        /\ crawler[b[1][1]] = b[1]
        /\ pc[b[1][1]] \in {"body", "exit", "except"}

\* C5: a crawl body that returns marks the task finished, and a finished
\* task starts no further attempt: its attempts are one more than its
\* failures, all of them before the success.
C5_SuccessEndsLoop ==
    \A t \in Tasks :
      /\ (pc[t] = "exit" /\ raised_at[t] = "none") => finished[t]
      /\ finished[t] =>
           /\ pc[t] \in {"exit", "loop", "returned"}
           /\ attempts[t] = n_retry[t] + 1
           /\ Len(retry_log[t]) = n_retry[t]
           /\ raised_at[t] = "none"

C5_Witness ==
    \E t \in Tasks :
      pc[t] = "returned" /\ finished[t] /\ attempts[t] = 2 /\ n_retry[t] = 1

\* C6: when some element of the batch is not well-formed, parallel_crawl
\* has either not begun or has raised; no task was created or dispatched,
\* no attempt made, no crawler instantiated and no browser launched.
C6_FailFastValidation ==
    (\E i \in Batch : ~ArgsOK(crawl_args_list[i])) =>
      /\ phase \in {"idle", "raised"}
      /\ \A t \in Tasks : pc[t] = "none" /\ runs[t] = 0 /\ attempts[t] = 0
      /\ heap = <<>>
      /\ browsers = <<>>

C6_Witness ==
    /\ phase = "raised"
    /\ Len(crawl_args_list) = 3
    /\ ArgsOK(crawl_args_list[1]) /\ ArgsOK(crawl_args_list[2])
    /\ ~ArgsOK(crawl_args_list[3])

\* C7: a task for which an attempt was begun or a crawler exists is a task
\* of the batch whose arguments _validate_crawl_args has returned for, and
\* they are well-formed.
C7_SessionOnlyAfterValidation ==
    /\ \A t \in Tasks :
         (attempts[t] > 0 \/ crawler[t] # None) =>
           /\ t \in Batch
           /\ t \in validated
           /\ ArgsOK(crawl_args_list[t])
    /\ \A c \in DOMAIN heap :
         /\ heap[c].owner[1] \in validated
         /\ ArgsOK(crawl_args_list[heap[c].owner[1]])

C7_Witness ==
    \E t \in Tasks :
      /\ crawler[t] # None
      /\ heap[crawler[t]].agent_is_running
      /\ browsers[heap[crawler[t]].browser].open

\* C8: never more than n_workers tasks execute their worker procedure.
C8_BoundedConcurrency == Cardinality(Active) <= n_workers

C8_Witness ==
    /\ n_workers = 2
    /\ Cardinality(Active) = 2
    /\ \E t \in Batch : pc[t] = "queued"

\* C9: parallel_crawl with well-formed arguments does not raise; when it
\* has returned every task's worker has returned in a terminal state; and
\* no task is started by the executor more than once, each exactly once by
\* the time of the return.
C9_ReturnsAfterAllTerminal ==
    /\ (\A i \in Batch : ArgsOK(crawl_args_list[i])) => phase # "raised"
    /\ \A t \in Tasks : runs[t] <= 1
    /\ phase = "returned" =>
         \A t \in Batch :
           pc[t] = "returned" /\ Terminal(t) /\ runs[t] = 1

C9_Witness ==
    /\ phase = "returned"
    /\ \E t \in Batch : ~finished[t] /\ n_retry[t] = max_retry
    /\ \E t \in Batch : finished[t] /\ n_retry[t] = 1

\* C10: the crawler a worker holds exists, was instantiated by this task in
\* its current attempt, and is held by no other worker; the browser, context
\* and page its manager refers to were launched by that crawler, and the
\* page its interactor and extractor use is its own.
C10_SessionsNotShared ==
    /\ \A t, u \in Tasks :
         (t # u /\ crawler[t] # None /\ crawler[u] # None) =>
           crawler[t] # crawler[u]
    /\ \A t \in Tasks :
         crawler[t] # None =>
           /\ crawler[t] \in DOMAIN heap
           /\ heap[crawler[t]].owner = <<t, attempts[t]>>
    /\ \A c \in DOMAIN heap :
         /\ \A r \in {heap[c].browser, heap[c].context, heap[c].page,
                      heap[c].page_interactor, heap[c].data_extractor} :
              r # None => r[1] = c /\ r \in DOMAIN browsers
         /\ \E t \in Tasks : crawler[t] = c

C10_Witness ==
    \E t, u \in Tasks :
      /\ t # u
      /\ pc[t] = "body" /\ pc[u] = "body"
      /\ attempts[t] = 2
      /\ heap[crawler[t]].page # None /\ heap[crawler[u]].page # None

\* C11: no two tasks of one batch write to the same log file: every log
\* file holds the records of at most one task.
C11_OneWriterPerLogFile ==
    \A path \in DOMAIN log_files : Cardinality(log_files[path]) <= 1

\* the loop of _scroll_load has ended by a break
Stopped == scroll.pc \in {"done", "returned"}

\* C12: in a run without a selector, once the offset readings end in
\* same_th identical values the run has terminated (no later than the
\* same_th-th identical reading).
C12_StopsAtSameThReadings ==
    (scroll.selector = None /\ scroll.run_len >= scroll.same_th) =>
        (Stopped \/ scroll.pc = "raised")

\* C12, amended: in a run without a selector the position check counts the
\* readings equal to their predecessor, so the run terminates at the
\* (same_th + 1)-th of consecutive identical readings, no later and no
\* earlier, and performs no scroll step after the terminating reading.
C12_StopsAtSameThPlusOneReadings ==
    scroll.selector = None =>
      /\ scroll.run_len <= scroll.same_th + 1
      /\ scroll.run_len = scroll.same_th + 1 =>
           Stopped /\ scroll.stop_by = "top"
      /\ Stopped =>
           /\ scroll.run_len = scroll.same_th + 1
           /\ scroll.n_steps = scroll.n_reads
           /\ ~ENABLED LoopStep

C12_Witness ==
    /\ scroll.selector = None
    /\ Stopped
    /\ scroll.same_th = 2 /\ scroll.run_len = 3
    /\ scroll.n_reads > 4

\* C13: in a run with a selector, once the matched count has shown no
\* growth (a count not above the count of the poll before; before the first
\* poll the count is 0) for 10 consecutive polls, the run has terminated.
C13_StopsAfterTenPollsWithoutGrowth ==
    (scroll.selector # None
       /\ scroll.nogrowth_polls >= same_sel_count_th) =>
        (Stopped \/ scroll.pc = "raised")

\* C13, amended: in a run with a selector, once the matched count has been
\* equal to the count of the poll before (0 before the first poll) for 10
\* consecutive polls, the run has terminated at the 10th of those polls,
\* before that cycle's scroll step, whatever the scroll offsets do; a count
\* that shrinks starts the 10 polls afresh.
C13_StopsAfterTenUnchangedPolls ==
    (scroll.selector # None
       /\ scroll.unchanged_polls >= same_sel_count_th) =>
        /\ Stopped
        /\ scroll.unchanged_polls = same_sel_count_th
        /\ scroll.n_steps = scroll.cycle - 1
        /\ ~ENABLED LoopStep

C13_Witness ==
    /\ scroll.selector # None
    /\ Stopped /\ scroll.stop_by = "count"
    /\ scroll.unchanged_polls = same_sel_count_th
    /\ scroll.n_polls > same_sel_count_th
    /\ scroll.all_differ

\* C14: in a run with a selector and a threshold, the poll that finds the
\* matched count at or above the threshold ends the run: the scroll steps,
\* callbacks, waits and offset reads are those of the cycles before it, and
\* nothing is performed afterwards.
C14_ThresholdStopsAtPoll ==
    (scroll.selector # None /\ scroll.threshold # None
       /\ scroll.n_polls > 0
       /\ scroll.n_selector >= scroll.threshold[1]) =>
        /\ Stopped
        /\ scroll.n_steps = scroll.cycle - 1
        /\ scroll.n_calls = (scroll.cycle - 1) * scroll.n_callbacks
        /\ scroll.n_waits = scroll.cycle - 1
        /\ scroll.n_reads = scroll.cycle - 1
        /\ ~ENABLED LoopStep

C14_Witness ==
    /\ scroll.selector # None
    /\ scroll.stop_by = "threshold"
    /\ scroll.threshold = Some(2) /\ scroll.n_selector = 2
    /\ scroll.count_check_interval = 2
    /\ scroll.n_polls = 2
    /\ scroll.n_callbacks > 0

\* C15: the loop has no cycle cap: a run that has not ended can always
\* begin its next cycle, however many cycles it has made; a run without a
\* selector in which every offset reading differs from the one before and
\* no callback raises has not terminated; and a run ends only by one of the
\* stop conditions, which then holds, or by a callback that raised.
C15_NoCycleCap ==
    /\ (scroll.pc = "loop" /\ scroll.cycle < MaxCycles) =>
           ENABLED (CycleBegin \/ Poll)
    /\ scroll.pc \in {"step", "callback", "wait", "top"} => ENABLED LoopStep
    /\ (scroll.selector = None /\ scroll.all_differ) => ~Stopped
    /\ Stopped =>
         \/ scroll.stop_by = "top"
              /\ scroll.same_count >= scroll.same_th
         \/ scroll.stop_by = "count" /\ scroll.selector # None
              /\ scroll.same_sel_count >= same_sel_count_th
         \/ scroll.stop_by = "threshold" /\ scroll.selector # None
              /\ scroll.threshold # None
              /\ scroll.n_selector >= scroll.threshold[1]
    /\ scroll.pc = "raised" =>
         scroll.n_calls > (scroll.cycle - 1) * scroll.n_callbacks

C15_Witness ==
    /\ scroll.selector = None
    /\ scroll.all_differ
    /\ scroll.pc = "loop"
    /\ scroll.cycle = MaxCycles /\ scroll.n_reads = MaxCycles

\* C16: for max_retry >= 1, while the click-target is found at every check
\* and the visible-target has never been visible, the call has not returned
\* and has not clicked more than max_retry times; it ends with exactly
\* max_retry clicks and the error 'Cannot make ... visible after max_retry
\* tries', every wait having timed out without ending the call.
C16_ExactlyMaxRetryClicks ==
    (click.max_retry >= 1 /\ click.click_always /\ ~click.ever_visible) =>
        /\ click.pc # "returned"
        /\ click.n_clicks <= click.max_retry
        /\ click.n_timeouts <= click.n_clicks
        /\ click.pc = "raised" =>
             /\ click.error = "Cannot make visible"
             /\ click.n_clicks = click.max_retry
             /\ click.n_timeouts = click.max_retry
        /\ click.pc # "raised" => ENABLED NextClick

C16_Witness ==
    /\ click.max_retry = 3
    /\ click.click_always /\ ~click.ever_visible
    /\ click.pc = "raised"
    /\ click.n_clicks = 3 /\ click.n_timeouts = 3

\* C17: the call fails with 'Cannot make ... visible' only if the
\* visible-target did not become visible: when the page answers that the
\* visible-target is visible at the check after a click, the max_retry-th
\* click included, the call returns.
C17_VisibleAfterClickReturns ==
    (click.n_clicks >= 1 /\ click.pc \in {"returned", "raised"}
       /\ click.last_visible) =>
        click.pc = "returned"

\* C18: when the visible-target is not visible, budget remains and the
\* click-target is not found, the call fails at once with 'Cannot find the
\* clicking element': no click is made in that iteration or after it, so
\* the clicks are those of the iterations before, none when the first check
\* fails; and the call fails in this way in no other case.
C18_MissingClickTargetFailsAtOnce ==
    /\ ~click.click_always =>
         /\ click.pc = "raised"
         /\ click.error = "Cannot find the clicking element"
         /\ click.n_clicks = click.n_retry
         /\ click.n_retry < click.max_retry
         /\ ~click.last_visible
         /\ ~ENABLED NextClick
    /\ click.error = "Cannot find the clicking element" =>
         ~click.click_always

C18_Witness ==
    /\ ~click.click_always
    /\ click.pc = "raised"
    /\ click.max_retry = 3 /\ click.n_clicks = 1

\* C19: _validate_crawl_args returns without error exactly when every
\* required field is present, every present name is a required or an
\* optional field, and every present value is of its declared type; with
\* required {a: int} and optional {b: str}, {a: 'x'} fails with a type
\* mismatch on a, {a: 1, c: 2} with the extra field c, {} with the missing
\* field a.
C19_ValidatesExactlyWellFormedArgs ==
    val.pc = "done" =>
      /\ val.result.error = "none" <=>
           ArgsOKFor(val.required, val.optional, val.crawl_args)
      /\ (val.required = [a |-> "int"] /\ val.optional = [b |-> "str"]) =>
           /\ val.crawl_args = [a |-> StrVal("x")] =>
                val.result = [error |-> "type", fields |-> {"a"}]
           /\ val.crawl_args = [a |-> IntVal("1"), c |-> IntVal("2")] =>
                val.result = [error |-> "unknown", fields |-> {"c"}]
           /\ val.crawl_args = EmptyDict =>
                val.result = [error |-> "missing", fields |-> {"a"}]

C19_Witness ==
    /\ val.pc = "done"
    /\ val.required = [a |-> "int"] /\ val.optional = [b |-> "str"]
    /\ val.crawl_args = [a |-> IntVal("1"), b |-> StrVal("x")]
    /\ val.result.error = "none"

\* C20: when required fields are missing the validation fails with the
\* missing-fields error, and the error names every missing required field:
\* exactly the required names that are not among the present ones.
C20_ListsEveryMissingField ==
    val.pc = "done" =>
      /\ (DOMAIN val.required) \ (DOMAIN val.crawl_args) # {} =>
           /\ val.result.error = "missing"
           /\ val.result.fields =
                (DOMAIN val.required) \ (DOMAIN val.crawl_args)
      /\ val.result.error = "missing" =>
           (DOMAIN val.required) \ (DOMAIN val.crawl_args) # {}

C20_Witness ==
    /\ val.pc = "done"
    /\ val.crawl_args = [c |-> IntVal("1")]
    /\ val.result = [error |-> "missing", fields |-> {"a", "b"}]

\* C21: when every required field is present and some present names are
\* neither required nor optional, the validation fails with the
\* unknown-fields error, which names every such field: exactly the present
\* names minus the required and optional ones; and it fails in this way in
\* no other case.
C21_ListsEveryExtraField ==
    val.pc = "done" =>
      LET missing == (DOMAIN val.required) \ (DOMAIN val.crawl_args)
          extra   == (DOMAIN val.crawl_args) \
                       ((DOMAIN val.required) \cup (DOMAIN val.optional))
      IN  /\ (missing = {} /\ extra # {}) =>
                /\ val.result.error = "unknown"
                /\ val.result.fields = extra
          /\ val.result.error = "unknown" => (missing = {} /\ extra # {})

C21_Witness ==
    /\ val.pc = "done"
    /\ val.required = [a |-> "int"] /\ val.optional = EmptyDict
    /\ val.result = [error |-> "unknown", fields |-> {"b", "c"}]

\* C22: when several present fields have a value of the wrong type, the
\* failed validation names all of them, not only the first one met.
C22_ListsEveryTypeMismatch ==
    (val.pc = "done" /\ val.result.error = "type") =>
        val.result.fields =
          {f \in DOMAIN val.crawl_args :
             val.crawl_args[f].type #
               DictMerge(val.required, val.optional)[f]}

C23_StartStopIdempotent ==
    [][(session'.ops = session.ops + 1
          /\ \/ session'.call = "mgr.start"
                  /\ heap[SessionRef].mgr_is_running
             \/ session'.call \in {"agent.start", "crawler.start"}
                  /\ heap[SessionRef].agent_is_running
             \/ session'.call = "mgr.close"
                  /\ ~heap[SessionRef].mgr_is_running
             \/ session'.call \in {"agent.stop", "crawler.stop"}
                  /\ ~heap[SessionRef].agent_is_running)
         => /\ heap' = heap
            /\ browsers' = browsers
            /\ ~session'.raised]_vars

C23_Witness ==
    /\ session.call = "mgr.start" /\ session.noop
    /\ heap[SessionRef].mgr_is_running
    /\ heap[SessionRef].launched = 1
    /\ session.ops = 2

\* C26: the start hook is called when the browser and the blank page exist
\* and is_running is still false; the stop hook is called when there is no
\* browser and no page and is_running is still true; each hook has been
\* called once for every start that found the agent not running and whose
\* browser start succeeded, respectively every stop that found it running,
\* and never by a call that changed nothing.
C26_HookOrdering ==
    LET obj == heap[SessionRef]
    IN  /\ obj.start_hooks = session.eff_starts
        /\ obj.stop_hooks = session.eff_stops
        /\ \A i \in DOMAIN obj.last_hook :
             LET seen == obj.last_hook[i]
             IN  /\ seen.hook = "start" =>
                      seen.browser /\ seen.page /\ ~seen.is_running
                 /\ seen.hook = "stop" =>
                      ~seen.browser /\ ~seen.page /\ seen.is_running
        /\ obj.agent_is_running => obj.start_hooks > obj.stop_hooks

C26_Witness ==
    /\ session.level = "agent"
    /\ session.ops = 4 /\ session.call = "agent.stop" /\ session.noop
    /\ heap[SessionRef].start_hooks = 2
    /\ heap[SessionRef].stop_hooks = 1

\* C24: in a run with a selector, at a poll that does not stop the run and
\* finds the matched count grown by more than log_interval since the poll
\* before, a progress message has been emitted.
C24_ProgressMessageOnGrowth ==
    (scroll.selector # None /\ scroll.log_due) => scroll.n_logs > 0

\* C25: scroll_load_selector returns the final matched-element count, a
\* number; when a count condition stopped the run, it is the count of the
\* poll that stopped it.
C25_ReturnsFinalCount ==
    (scroll.selector # None /\ scroll.pc = "returned") =>
        /\ scroll.result # None
        /\ scroll.result[1].type = "int"
        /\ scroll.stop_by \in {"count", "threshold"} =>
             scroll.result[1] = ReturnValue_Count(scroll.n_selector)

\* C29: a cycle that does not stop at its poll performs one scroll step,
\* then every callback once in list order, then the wait, then the offset
\* read; the next cycle begins only when all of them are done: at every
\* point of a run the steps, callback calls, waits and reads made are those
\* of the completed cycles plus the part of the current cycle before the
\* point.
C29_CycleOrder ==
    LET k    == scroll.cycle
        n    == scroll.n_callbacks
        done == [steps |-> scroll.n_steps, calls |-> scroll.n_calls,
                 waits |-> scroll.n_waits, reads |-> scroll.n_reads]
        all  == [i \in 1..n |-> i]
    IN  /\ scroll.pc = "loop" =>
             done = [steps |-> k, calls |-> k * n, waits |-> k, reads |-> k]
        /\ scroll.pc = "step" =>
             done = [steps |-> k - 1, calls |-> (k - 1) * n,
                     waits |-> k - 1, reads |-> k - 1]
        /\ scroll.pc = "callback" =>
             /\ scroll.callback \in 1..n
             /\ scroll.called = SubSeq(all, 1, scroll.callback - 1)
             /\ done = [steps |-> k,
                        calls |-> (k - 1) * n + scroll.callback - 1,
                        waits |-> k - 1, reads |-> k - 1]
        /\ scroll.pc = "wait" =>
             /\ scroll.called = all
             /\ done = [steps |-> k, calls |-> k * n,
                        waits |-> k - 1, reads |-> k - 1]
        /\ scroll.pc = "top" =>
             /\ scroll.called = all
             /\ done = [steps |-> k, calls |-> k * n,
                        waits |-> k, reads |-> k - 1]

C29_Witness ==
    /\ scroll.pc = "top"
    /\ scroll.n_callbacks = 2 /\ scroll.called = <<1, 2>>
    /\ scroll.cycle = 3 /\ scroll.n_calls = 6 /\ scroll.n_waits = 3

\* C30: when a callback raises, the run ends there: the callbacks after it,
\* the wait and the offset read of that cycle and every later scroll step
\* are not performed; with a single callback, a raise at its K-th call
\* leaves the run with exactly K scroll steps.
C30_RaisingCallbackEndsRun ==
    scroll.cb_raised =>
        /\ scroll.pc = "raised"
        /\ ~ENABLED NextScroll
        /\ scroll.n_steps = scroll.cycle
        /\ scroll.n_waits = scroll.cycle - 1
        /\ scroll.n_reads = scroll.cycle - 1
        /\ scroll.n_calls =
             (scroll.cycle - 1) * scroll.n_callbacks + scroll.callback
        /\ scroll.called = [i \in 1..scroll.callback |-> i]
        /\ scroll.n_callbacks = 1 => scroll.n_steps = scroll.n_calls

C30_Witness ==
    /\ scroll.pc = "raised" /\ scroll.cb_raised
    /\ scroll.n_callbacks = 2 /\ scroll.callback = 1
    /\ scroll.cycle = 3 /\ scroll.n_steps = 3 /\ scroll.n_calls = 5

\* C31: with a selector and count_check_interval = N the matched count is
\* queried in the cycles N, 2N, 3N, ... and in no other: at every point of a
\* run the polls made are those of the multiples of N among the cycles begun,
\* and the first poll comes after exactly N - 1 scroll steps; without a
\* selector the count is never queried.
C31_PollsEveryNthCycle ==
    LET N == scroll.count_check_interval
    IN  /\ scroll.pc # "unused" /\ scroll.selector = None =>
             scroll.n_polls = 0
        /\ scroll.pc # "unused" /\ scroll.selector # None =>
             /\ scroll.n_polls = scroll.cycle \div N
             /\ scroll.count_check_counter = scroll.cycle % N
             /\ (scroll.cycle = N
                   /\ (scroll.pc = "step"
                         \/ scroll.stop_by \in {"count", "threshold"})) =>
                  scroll.n_polls = 1 /\ scroll.n_steps = N - 1

C31_Witness ==
    /\ scroll.selector # None
    /\ scroll.count_check_interval = 2
    /\ scroll.pc = "step" /\ scroll.cycle = 4
    /\ scroll.n_polls = 2 /\ scroll.n_steps = 3

\* C32: in a run with a selector both stop signals are active: while the
\* run goes on neither the position check nor a count check holds, and the
\* run has stopped on the signal that held first, whatever the other signal
\* showed at that time (the position check stops a run whose count still
\* changed at the latest poll; a count check stops a run whose offset
\* changed at the latest reading).
C32_FirstSignalStops ==
    LET position == scroll.same_count >= scroll.same_th
        stable   == scroll.same_sel_count >= same_sel_count_th
        reached  == /\ scroll.threshold # None
                    /\ scroll.n_selector >= scroll.threshold[1]
    IN  (scroll.pc # "unused" /\ scroll.selector # None) =>
          /\ ~Stopped => ~position /\ ~stable /\ ~reached
          /\ Stopped =>
               /\ scroll.stop_by \in {"top", "count", "threshold"}
               /\ scroll.stop_by = "top" <=> position
               /\ scroll.stop_by = "count" <=> stable
               /\ scroll.stop_by = "threshold" <=> (reached /\ ~stable)
               /\ ~ENABLED LoopStep

C32_Witness ==
    /\ scroll.selector # None
    /\ Stopped /\ scroll.stop_by = "top"
    /\ scroll.n_polls >= 2
    /\ scroll.unchanged_polls = 0
    /\ scroll.n_selector > 0

\* C33: in a run without a selector the position counter is the number of
\* consecutive readings equal to their predecessor that end at the latest
\* reading: 0 before and at the first reading (it is compared with None), 0
\* after every differing reading; the run stops exactly when the counter
\* reaches same_th, at the first reading equal to the same_th readings
\* before it.
C33_PositionCounter ==
    (scroll.pc # "unused" /\ scroll.selector = None) =>
      /\ scroll.n_reads = 0 =>
           scroll.same_count = 0 /\ scroll.last_top = None
      /\ scroll.n_reads = 1 => scroll.same_count = 0 /\ ~Stopped
      /\ scroll.n_reads >= 1 =>
           /\ scroll.same_count = scroll.run_len - 1
           /\ scroll.last_top = scroll.last_reading
      /\ Stopped <=> scroll.same_count >= scroll.same_th
      /\ Stopped =>
           /\ scroll.same_count = scroll.same_th
           /\ scroll.n_reads = scroll.cycle

C33_Witness ==
    /\ scroll.selector = None
    /\ scroll.same_th = 2
    /\ scroll.pc = "loop"
    /\ scroll.n_reads = 4
    /\ scroll.run_len = 1 /\ scroll.same_count = 0
    /\ scroll.last_top = Some(400)

\* C34: count stability is counted against a baseline that starts at 0: the
\* counter is the number of consecutive polls whose count equalled the count
\* recorded before them, the baseline is the count of the latest poll, and
\* the run stops on the count at the first poll where the counter reaches
\* 10; a selector that matches nothing at every poll stops the run at the
\* 10th poll, in cycle 10 * count_check_interval.
C34_CountStabilityFromZero ==
    (scroll.pc # "unused" /\ scroll.selector # None) =>
      /\ scroll.n_polls = 0 =>
           scroll.same_sel_count = 0 /\ scroll.prev_n_selector = 0
      /\ scroll.same_sel_count = scroll.unchanged_polls
      /\ scroll.prev_n_selector = scroll.last_poll
      /\ scroll.stop_by = "count" <=>
           scroll.same_sel_count = same_sel_count_th
      /\ scroll.same_sel_count <= same_sel_count_th
      /\ (scroll.stop_by = "count"
            /\ scroll.unchanged_polls = scroll.n_polls) =>
           /\ scroll.n_selector = 0
           /\ scroll.n_polls = same_sel_count_th
           /\ scroll.cycle = same_sel_count_th * scroll.count_check_interval

C34_Witness ==
    /\ scroll.selector # None
    /\ Stopped /\ scroll.stop_by = "count"
    /\ scroll.n_selector = 0
    /\ scroll.n_polls = same_sel_count_th
    /\ scroll.unchanged_polls = scroll.n_polls
    /\ scroll.cycle = same_sel_count_th

\* C35: when the visible-target is visible at the first check of a call
\* with max_retry >= 1, the call returns without error, having made no
\* click and no check of the click-target.
C35_AlreadyVisibleReturns ==
    (click.pc # "unused" /\ click.max_retry >= 1
       /\ click.n_tests = 1 /\ click.last_visible) =>
        /\ click.pc = "returned"
        /\ click.error = "none"
        /\ click.n_clicks = 0
        /\ click.n_finds = 0
        /\ click.n_retry = 0
        /\ ~ENABLED NextClick

C35_Witness ==
    /\ click.pc = "returned"
    /\ click.max_retry = 1
    /\ click.n_tests = 1 /\ click.last_visible
    /\ click.n_finds = 0 /\ click.n_clicks = 0

\* the call has returned or raised
ClickEnded == click.pc \in {"returned", "raised"}

\* at most max_retry iterations and clicks; a click is made only after the
\* checks of its iteration answered 'visible-target not visible' and
\* 'click-target visible'
ClickBounded ==
    click.pc # "unused" =>
      /\ click.n_retry <= click.max_retry
      /\ click.n_finds <= click.max_retry
      /\ click.n_clicks <= click.n_finds
      /\ click.n_finds <= click.n_tests
      /\ click.n_tests <= click.max_retry + 1
      /\ click.pc \in {"click", "wait"} =>
           /\ ~click.last_visible
           /\ click.click_always
           /\ click.n_tests = click.n_retry + 1
           /\ click.n_finds = click.n_retry + 1
           /\ click.n_retry < click.max_retry
      /\ click.pc = "click" => click.n_clicks = click.n_retry
      /\ click.pc = "wait" => click.n_clicks = click.n_retry + 1

\* C36: every call of click_until_element_visible ends, after at most
\* max_retry iterations and at most max_retry clicks, whatever the page
\* answers; each click comes after its iteration's checks that the
\* visible-target is not visible and the click-target is.
C36_TerminatesWithinBudget == []ClickBounded /\ <>ClickEnded

C36_Witness ==
    /\ click.pc = "returned"
    /\ click.max_retry = 4
    /\ click.n_clicks = 3 /\ click.n_timeouts = 2
    /\ click.n_tests = 4

\* C37: after any sequence of completed start and stop calls on an agent,
\* none of which raised, the agent is running iff its browser manager is
\* running iff browser, context, page, page_interactor and data_extractor
\* are all set; when it is not running (at construction and after every
\* stop) all five are None.
C37_SessionStateConsistent ==
    (session.level = "agent" /\ ~session.any_raised) =>
      LET obj   == heap[SessionRef]
          parts == {obj.browser, obj.context, obj.page,
                    obj.page_interactor, obj.data_extractor}
      IN  /\ obj.agent_is_running <=> obj.mgr_is_running
          /\ obj.agent_is_running <=> (\A x \in parts : x # None)
          /\ ~obj.agent_is_running => (\A x \in parts : x = None)
          /\ session.call = "agent.stop" => ~obj.agent_is_running
          /\ (session.call = "agent.start") => obj.agent_is_running
          /\ \A b \in DOMAIN browsers :
               browsers[b].open <=> obj.browser = b

C37_Witness ==
    /\ session.level = "agent" /\ ~session.any_raised
    /\ session.ops = 4 /\ session.call = "agent.stop" /\ ~session.noop
    /\ heap[SessionRef].launched = 2
    /\ heap[SessionRef].page_interactor = None

\* C38: the crawl body is executed only while the crawler's session is
\* running: no call of crawl() on a crawler that is not running has executed
\* the body.
C38_BodyOnlyWhileRunning ==
    session.level = "crawler" => ~session.body_stopped

\* C39: when a start() call is made on a browser manager, or an agent,
\* while another start() call on it is suspended in the browser launch, then
\* once every call has returned at most one browser has been launched and
\* every browser that is open is the one the manager references, so that a
\* later close() closes it.
C39_OverlappingStartsLaunchOnce ==
    (session.overlapped /\ \A i \in Starts : session.co[i] = "done") =>
      /\ heap[SessionRef].launched <= 1
      /\ \A b \in DOMAIN browsers :
           browsers[b].open =>
             ~session.closed /\ heap[SessionRef].browser = b

=============================================================================
